---- MODULE Spec2Model ----
(***************************************************************************)
(* Model of src/sentry/integrations/gitlab/integration.py: the GitLab      *)
(* installation pipeline (InstallationConfigView.dispatch, the nested      *)
(* identity step, GitlabIntegrationProvider.build_integration), the        *)
(* installation's reinstall and message_from_error.                        *)
(*                                                                         *)
(* Text that the code parses or formats (urls, external ids) is a sequence *)
(* of one-character strings; text the code only passes around is a string. *)
(***************************************************************************)
EXTENDS Integers, Sequences, FiniteSets, TLC

VARIABLES pc, request, response, state, trace, raised, user, group,
          integration, exc, result

vars == <<pc, request, response, state, trace, raised, user, group,
          integration, exc, result>>

(***************************************************************************)
(* Bounds                                                                  *)
(***************************************************************************)
MaxGroupId == 2

MaxUserId == 1

(***************************************************************************)
(* Text helpers (Python str operations used by the code)                   *)
(***************************************************************************)
DIGITS == <<"0", "1", "2", "3", "4", "5", "6", "7", "8", "9">>

DigitChars == {DIGITS[i] : i \in 1..Len(DIGITS)}

LetterChars == {"a", "b", "c", "d", "e", "f", "g", "h", "i", "j", "k", "l", "m",
                "n", "o", "p", "q", "r", "s", "t", "u", "v", "w", "x", "y", "z"}

\* urlparse.scheme_chars
scheme_chars == LetterChars \cup DigitChars \cup {"+", "-", "."}

\* unicode(n) for a non-negative integer, as '{}'.format(n) produces it
RECURSIVE IntToStr(_)
IntToStr(n) ==
    IF n < 10 THEN <<DIGITS[n + 1]>>
    ELSE IntToStr(n \div 10) \o <<DIGITS[(n % 10) + 1]>>

\* s[i:] with a 1-based first index
Tail_(s, i) == SubSeq(s, i, Len(s))

\* 1-based index of the first character of s that is in cs, 0 when none
\* (str.find gives -1 / a 0-based index)
FindAny(s, cs) ==
    IF \E i \in 1..Len(s) : s[i] \in cs
    THEN CHOOSE i \in 1..Len(s) : s[i] \in cs /\ \A j \in 1..(i - 1) : s[j] \notin cs
    ELSE 0

\* str.split(sep) for a one-character separator
RECURSIVE Split(_, _)
Split(s, sep) ==
    LET i == FindAny(s, {sep})
    IN  IF i = 0 THEN <<s>>
        ELSE <<SubSeq(s, 1, i - 1)>> \o Split(Tail_(s, i + 1), sep)

StartsWith(s, p) == Len(s) >= Len(p) /\ SubSeq(s, 1, Len(p)) = p

\* str.replace(old, '') : every non-overlapping occurrence, left to right
RECURSIVE Remove(_, _)
Remove(s, old) ==
    IF s = <<>> THEN <<>>
    ELSE IF StartsWith(s, old) THEN Remove(Tail_(s, Len(old) + 1), old)
    ELSE <<s[1]>> \o Remove(Tail_(s, 2), old)

HTTPS_PREFIX == <<"h", "t", "t", "p", "s", ":", "/", "/">>

OAUTH_TOKEN_PATH == <<"/", "o", "a", "u", "t", "h", "/", "t", "o", "k", "e", "n">>

OAUTH_AUTHORIZE_PATH ==
    <<"/", "o", "a", "u", "t", "h", "/", "a", "u", "t", "h", "o", "r", "i", "z", "e">>

(***************************************************************************)
(* urlparse(url).netloc  (six.moves.urllib.parse, urlsplit)                *)
(***************************************************************************)
\* the url left once urlsplit has taken the scheme off
AfterScheme(url) ==
    LET i == FindAny(url, {":"})
        rest == Tail_(url, i + 1)
    IN  IF /\ i > 1
           /\ \A j \in 1..(i - 1) : url[j] \in scheme_chars
           /\ (rest = <<>> \/ \E j \in 1..Len(rest) : rest[j] \notin DigitChars)
        THEN rest
        ELSE url

\* _splitnetloc(url, 2) when the url starts with '//', else ''
netloc(url) ==
    LET rest == AfterScheme(url)
        d == FindAny(Tail_(rest, 3), {"/", "?", "#"})
    IN  IF StartsWith(rest, <<"/", "/">>)
        THEN IF d = 0 THEN Tail_(rest, 3) ELSE SubSeq(rest, 3, d + 1)
        ELSE <<>>

(***************************************************************************)
(* InstallationForm                                                        *)
(***************************************************************************)
FIELDS == {"url", "name", "group", "verify_ssl", "client_id", "client_secret"}

\* the forms.CharField fields, all required
CHAR_FIELDS == {"url", "name", "group", "client_id", "client_secret"}

SchemeParts == {<<>>, <<"h", "t", "t", "p", "s", ":">>}

SlashParts == {<<>>, <<"/", "/">>}

AuthorityParts == {<<"g", "l">>, <<"g", "l", "1">>, <<"g", "l", ":", "8">>,
                   <<"u", "@", "g", "l">>}

PathParts == {<<>>, <<"/", "p", "?", "x", "=", "1">>}

\* what a user may type into the url field (and the empty string)
UrlInputs ==
    {<<>>} \cup
    {sc \o sl \o au \o pa :
        sc \in SchemeParts, sl \in SlashParts, au \in AuthorityParts,
        pa \in PathParts}

\* what a browser or client may send for the checkbox
CheckboxInputs == {<<"o", "n">>, <<"f", "a", "l", "s", "e">>}

\* a submission with every field present
FullPosts ==
    [url : UrlInputs, name : {<<>>, <<"x">>}, group : {<<"g">>},
     verify_ssl : CheckboxInputs, client_id : {<<"i">>},
     client_secret : {<<"s">>}]

Restrict(f, S) == [k \in S |-> f[k]]

EmptyDict == [k \in {} |-> <<>>]

\* request.POST: the fields that were actually sent
Posts == {Restrict(full, S) : full \in FullPosts, S \in SUBSET FIELDS}

\* a CharField that only checks that the field was sent
CharFieldValid_PresentOnly(POST, f) == f \in DOMAIN POST

\* CharField.clean: a missing or empty value of a required field is an error
CharFieldValid(POST, f) == f \in DOMAIN POST /\ POST[f] # <<>>

\* a BooleanField that falls back to `initial` (True) when the field was not sent
BooleanFieldClean_InitialFallback(POST, f) ==
    IF f \notin DOMAIN POST THEN TRUE
    ELSE IF POST[f] = <<"f", "a", "l", "s", "e">> THEN FALSE
    ELSE POST[f] # <<>>

\* BooleanField(required=False) behind a CheckboxInput: a field that was not
\* sent is False; `initial` is only used to render an unbound form
BooleanFieldClean(POST, f) ==
    IF f \notin DOMAIN POST THEN FALSE
    ELSE IF POST[f] = <<"f", "a", "l", "s", "e">> THEN FALSE
    ELSE POST[f] # <<>>

\* form.is_valid()
is_valid(POST) == \A f \in CHAR_FIELDS : CharFieldValid(POST, f)

\* form.cleaned_data of a valid form
cleaned_data(POST) ==
    [url |-> POST["url"], name |-> POST["name"], group |-> POST["group"],
     verify_ssl |-> BooleanFieldClean(POST, "verify_ssl"),
     client_id |-> POST["client_id"], client_secret |-> POST["client_secret"]]

(***************************************************************************)
(* Pipeline state                                                          *)
(***************************************************************************)
\* pipeline.bind_state(key, value)
bind_state(st, key, value) == (key :> value) @@ st

\* the body of an upstream response as json.loads gives it: its Python type,
\* its len() (the value itself for a number) and, for an object, the value
\* under 'message' when there is one
JsonNone == [t |-> "none", n |-> 0, message |-> <<>>]

NoException == [type |-> "none", code |-> 0, json |-> JsonNone]

NoUser == [id |-> 0]

NoGroup == [id |-> 0, name |-> "", avatar_url |-> "", web_url |-> <<>>]

Init ==
    /\ pc = "config"
    /\ request = EmptyDict
    /\ response = "none"
    /\ state = EmptyDict
    /\ trace = <<>>
    /\ raised = NoException
    /\ user = NoUser
    /\ group = NoGroup
    /\ integration = <<>>
    /\ exc = NoException
    /\ result = <<>>

(***************************************************************************)
(* InstallationConfigView.dispatch                                         *)
(***************************************************************************)
\* form_data after the url has been replaced by its netloc
form_data_of(POST) == [cleaned_data(POST) EXCEPT !.url = netloc(@)]

oauth_config_information(form_data) ==
    [access_token_url |-> HTTPS_PREFIX \o form_data.url \o OAUTH_TOKEN_PATH,
     authorize_url |-> HTTPS_PREFIX \o form_data.url \o OAUTH_AUTHORIZE_PATH,
     client_id |-> form_data.client_id,
     client_secret |-> form_data.client_secret,
     verify_ssl |-> form_data.verify_ssl]

dispatch ==
    /\ pc = "config"
    /\ \E POST \in Posts :
        LET form_data == form_data_of(POST)
        IN  /\ request' = POST
            /\ IF is_valid(POST)
               THEN /\ state' = bind_state(
                                   bind_state(state, "installation_data", form_data),
                                   "oauth_config_information",
                                   oauth_config_information(form_data))
                    /\ trace' = trace \o <<"bind:installation_data",
                                           "bind:oauth_config_information",
                                           "next_step">>
                    /\ response' = "next_step"
                    /\ pc' = "identity"
               ELSE /\ response' = "form"
                    /\ UNCHANGED <<state, trace, pc>>
    /\ UNCHANGED <<raised, user, group, integration, exc, result>>

(***************************************************************************)
(* GitlabIntegrationProvider: identity step                                *)
(***************************************************************************)
\* _make_identity_pipeline_view: the config handed to the nested pipeline
identity_pipeline_config(st) ==
    [oauth_scopes |-> <<"api", "sudo">>,
     redirect_url |-> "/extensions/gitlab/setup/"] @@ st["oauth_config_information"]

PayloadKeys == {"access_token", "refresh_token", "token_type", "scope"}

PayloadValues ==
    [access_token |-> "tok", refresh_token |-> "ref", token_type |-> "bearer",
     scope |-> "api sudo"]

\* what the token endpoint may answer on success
TokenPayloads ==
    {Restrict(PayloadValues, S \cup {"access_token"}) : S \in SUBSET PayloadKeys}

\* the late-bound second view: built from the bound oauth config, then the
\* nested OAuth2 pipeline either binds its result under 'identity' or fails
identity_step ==
    /\ pc = "identity"
    /\ "oauth_config_information" \in DOMAIN state
    /\ identity_pipeline_config(state).access_token_url
           = state["oauth_config_information"].access_token_url
    /\ \/ \E payload \in TokenPayloads :
            /\ state' = bind_state(state, "identity", [data |-> payload])
            /\ trace' = trace \o <<"identity_view", "token">>
            /\ pc' = "build_user"
            /\ UNCHANGED raised
       \/ /\ raised' = [type |-> "AuthorizationError", code |-> 0, json |-> JsonNone]
          /\ trace' = trace \o <<"identity_view">>
          /\ pc' = "failed"
          /\ UNCHANGED state
    /\ UNCHANGED <<request, response, user, group, integration, exc, result>>

(***************************************************************************)
(* GitlabIntegrationProvider.build_integration                             *)
(***************************************************************************)
\* get_oauth_data that hands the whole token payload on
get_oauth_data_WholePayload(payload) == payload

get_oauth_data(payload) ==
    LET data == [k \in {"access_token"} |-> payload[k]]
        data1 == IF "refresh_token" \in DOMAIN payload
                 THEN ("refresh_token" :> payload["refresh_token"]) @@ data
                 ELSE data
    IN  IF "token_type" \in DOMAIN payload
        THEN ("token_type" :> payload["token_type"]) @@ data1
        ELSE data1

\* HTTP statuses the GitLab API answers with
ErrorStatuses == {401, 404, 500}

UserIds == 1..MaxUserId

GroupIds == {g + d : g \in 1..MaxGroupId, d \in {0, 10}}

\* bodies of a successful group lookup
GroupInfos ==
    [id : GroupIds, name : {"grp"}, avatar_url : {"avatar.png"},
     web_url : {HTTPS_PREFIX \o <<"g", "l", "/", "g">>}]

\* external id formatted without the separator
external_id_of_NoSeparator(base_url, group_id) == base_url \o IntToStr(group_id)

\* u'{}:{}'.format(base_url, group['id'])
external_id_of(base_url, group_id) == base_url \o <<":">> \o IntToStr(group_id)

\* a user lookup whose failure is swallowed: the build goes on without a user
build_integration_user_SwallowFailure ==
    /\ pc = "build_user"
    /\ \/ \E id \in UserIds :
            /\ user' = [id |-> id]
            /\ trace' = trace \o <<"get_user_info", "user_ok">>
       \/ /\ trace' = trace \o <<"get_user_info">>
          /\ UNCHANGED user
    /\ pc' = "build_group"
    /\ UNCHANGED <<request, response, state, raised, group, integration, exc, result>>

\* lines 229-231: the user lookup comes first; if it raises, nothing else runs
build_integration_user ==
    /\ pc = "build_user"
    /\ \/ \E id \in UserIds :
            /\ user' = [id |-> id]
            /\ trace' = trace \o <<"get_user_info", "user_ok">>
            /\ pc' = "build_group"
            /\ UNCHANGED raised
       \/ \E status \in ErrorStatuses, type \in {"HTTPError", "ApiError"} :
            /\ raised' = [type |-> type, code |-> status, json |-> JsonNone]
            /\ trace' = trace \o <<"get_user_info">>
            /\ pc' = "failed"
            /\ UNCHANGED user
    /\ UNCHANGED <<request, response, state, group, integration, exc, result>>

\* get_group_info: resp.raise_for_status() raises requests' HTTPError on a
\* 4xx / 5xx answer, otherwise the body is returned
get_group_info(status, body) ==
    IF status >= 400 /\ status < 600
    THEN [raises |-> TRUE,
          exception |-> [type |-> "HTTPError", code |-> status, json |-> JsonNone],
          value |-> NoGroup]
    ELSE [raises |-> FALSE, exception |-> NoException, value |-> body]

\* a group lookup that does not wait for the user lookup
build_integration_group_BeforeUser ==
    /\ pc \in {"build_user", "build_group"}
    /\ \E status \in {200} \cup ErrorStatuses, body \in GroupInfos :
        LET r == get_group_info(status, body)
        IN  IF r.raises
            THEN /\ raised' = r.exception
                 /\ trace' = trace \o <<"get_group_info">>
                 /\ pc' = "failed"
                 /\ UNCHANGED group
            ELSE /\ group' = r.value
                 /\ trace' = trace \o <<"get_group_info", "group_ok">>
                 /\ pc' = "build_assemble"
                 /\ UNCHANGED raised
    /\ UNCHANGED <<request, response, state, user, integration, exc, result>>

\* line 232
build_integration_group ==
    /\ pc = "build_group"
    /\ \E status \in {200} \cup ErrorStatuses, body \in GroupInfos :
        LET r == get_group_info(status, body)
        IN  IF r.raises
            THEN /\ raised' = r.exception
                 /\ trace' = trace \o <<"get_group_info">>
                 /\ pc' = "failed"
                 /\ UNCHANGED group
            ELSE /\ group' = r.value
                 /\ trace' = trace \o <<"get_group_info", "group_ok">>
                 /\ pc' = "build_assemble"
                 /\ UNCHANGED raised
    /\ UNCHANGED <<request, response, state, user, integration, exc, result>>

\* lines 233-253
assemble(st, usr, grp) ==
    LET data == st["identity"].data
        scopes == <<"api", "sudo">>
        base_url == st["installation_data"].url
    IN  [name |-> grp.name,
         external_id |-> external_id_of(base_url, grp.id),
         metadata |-> [icon |-> grp.avatar_url,
                       domain_name |-> Remove(grp.web_url, HTTPS_PREFIX),
                       scopes |-> scopes,
                       verify_ssl |-> st["installation_data"].verify_ssl],
         user_identity |-> [type |-> "gitlab",
                            external_id |-> usr.id,
                            scopes |-> scopes,
                            data |-> get_oauth_data(data)]]

build_integration_assemble ==
    /\ pc = "build_assemble"
    /\ integration' = <<assemble(state, user, group)>>
    /\ trace' = trace \o <<"integration">>
    /\ pc' = "assembled"
    /\ UNCHANGED <<request, response, state, raised, user, group, exc, result>>

(***************************************************************************)
(* GitlabIntegration.reinstall, on the stored Integration                  *)
(***************************************************************************)
\* metadata after reinstall; model.external_id is not written
reinstall_metadata(model) ==
    LET installation_id == Split(model.external_id, ":")[2]
    IN  ("installation_id" :> installation_id) @@ model.metadata

reinstall ==
    /\ pc = "assembled"
    /\ integration' = <<[integration[1] EXCEPT
                           !.metadata = reinstall_metadata(integration[1])]>>
    /\ pc' = "reinstalled"
    /\ UNCHANGED <<request, response, state, trace, raised, user, group, exc, result>>

(***************************************************************************)
(* GitlabIntegration.message_from_error                                    *)
(***************************************************************************)
ERR_INTERNAL == "ERR_INTERNAL"

ERR_UNAUTHORIZED == "ERR_UNAUTHORIZED"

API_ERRORS ==
    (404 :> "Gitlab returned a 404 Not Found error. If this repository exists, ensure that your installation has permission to access this repository")
    @@ (401 :> ERR_UNAUTHORIZED)

Return(fmt, args) == [kind |-> "return", fmt |-> fmt, args |-> args]

Raise(type) == [kind |-> "raise", fmt |-> type, args |-> <<>>]

\* bool(json)
Truthy(json) == json.t # "none" /\ json.n # 0

\* json.get('message', 'unknown error'): only a dict has .get
json_get_message(json) ==
    IF json.t # "dict" THEN Raise("AttributeError")
    ELSE IF json.message = <<>> THEN Return("unknown error", <<>>)
    ELSE Return(json.message[1], <<>>)

message_from_error(e) ==
    IF e.type = "ApiError"
    THEN IF e.code \in DOMAIN API_ERRORS
         THEN Return(API_ERRORS[e.code], <<>>)
         ELSE LET m == IF Truthy(e.json) THEN json_get_message(e.json)
                       ELSE Return("unknown error", <<>>)
              IN  IF m.kind = "raise" THEN m
                  ELSE Return("Error Communicating with Gitlab (HTTP %s): %s",
                              <<ToString(e.code), m.fmt>>)
    ELSE Return(ERR_INTERNAL, <<>>)

JsonBodies ==
    {JsonNone}
    \cup [t : {"dict"}, n : {0}, message : {<<>>}]
    \cup [t : {"dict"}, n : {1, 2}, message : {<<>>, <<"boom">>, <<"">>}]
    \cup [t : {"list", "str", "num"}, n : {0, 1}, message : {<<>>}]

StatusCodes == {400, 401, 404, 500}

\* failures that can be handed to message_from_error
Exceptions ==
    [type : {"ApiError"}, code : StatusCodes, json : JsonBodies]
    \cup [type : {"HTTPError", "KeyError", "ValueError"}, code : StatusCodes,
          json : {JsonNone}]

InitError ==
    /\ pc = "config"
    /\ request = EmptyDict
    /\ response = "none"
    /\ state = EmptyDict
    /\ trace = <<>>
    /\ raised = NoException
    /\ user = NoUser
    /\ group = NoGroup
    /\ integration = <<>>
    /\ exc \in Exceptions
    /\ result = <<>>

message_from_error_call ==
    /\ exc.type # "none"
    /\ result = <<>>
    /\ result' = <<message_from_error(exc)>>
    /\ UNCHANGED <<exc, pc, request, response, state, trace, raised, user, group,
                   integration>>

(***************************************************************************)
(* Specifications                                                          *)
(***************************************************************************)
Next ==
    \/ dispatch
    \/ identity_step
    \/ build_integration_user
    \/ build_integration_group
    \/ build_integration_assemble
    \/ reinstall

Spec == Init /\ [][Next]_vars

NextError == message_from_error_call

SpecError == InitError /\ [][NextError]_vars

(***************************************************************************)
(* Properties                                                              *)
(***************************************************************************)
IsPrefix(s, t) == Len(s) <= Len(t) /\ SubSeq(t, 1, Len(s)) = s

Last(s) == s[Len(s)]

Count(s, e) == Cardinality({i \in 1..Len(s) : s[i] = e})

\* a required text field of the submission is missing or empty
MissingRequired(POST) ==
    \E f \in CHAR_FIELDS : f \notin DOMAIN POST \/ POST[f] = <<>>

\* the host of a url: its authority without userinfo and port
HostComponent(url) ==
    LET authority == netloc(url)
        hostport == Last(Split(authority, "@"))
    IN  Split(hostport, ":")[1]

\* the url has a scheme and an authority
IsAbsoluteUrl(url) == AfterScheme(url) # url /\ netloc(url) # <<>>

\* the installation urls a valid submission can bind
BoundUrls == {netloc(u) : u \in UrlInputs \ {<<>>}}

\* C1: every accepted submission binds only the (non-empty) host of the
\* submitted url, the OAuth endpoints are https://{host}/oauth/token and
\* https://{host}/oauth/authorize, and the submitted url is absolute.
C1_HostOnly ==
    response = "next_step" =>
        LET host == HostComponent(request["url"])
            config == state["oauth_config_information"]
        IN  /\ IsAbsoluteUrl(request["url"])
            /\ host # <<>>
            /\ state["installation_data"].url = host
            /\ config.access_token_url = HTTPS_PREFIX \o host \o OAUTH_TOKEN_PATH
            /\ config.authorize_url = HTTPS_PREFIX \o host \o OAUTH_AUTHORIZE_PATH

\* C2 (as stated): an otherwise valid submission without the verify_ssl field
\* is accepted and binds verify_ssl = true.
C2_AbsentIsTrue ==
    (~MissingRequired(request) /\ "verify_ssl" \notin DOMAIN request) =>
        /\ response = "next_step"
        /\ state["installation_data"].verify_ssl = TRUE

\* C2 (amended): an otherwise valid submission without the verify_ssl field
\* is accepted and binds verify_ssl = false, in installation_data and in the
\* OAuth config alike.
C2_AbsentIsFalse ==
    (~MissingRequired(request) /\ "verify_ssl" \notin DOMAIN request) =>
        /\ response = "next_step"
        /\ state["installation_data"].verify_ssl = FALSE
        /\ state["oauth_config_information"].verify_ssl = FALSE

C2_Witness ==
    /\ response = "next_step"
    /\ "verify_ssl" \notin DOMAIN request
    /\ ~MissingRequired(request)

\* C3: a submission with a missing or empty required field binds nothing and
\* does not advance (the pipeline state is unchanged and the form is shown
\* again); whenever dispatch advances the pipeline it has bound
\* installation_data and then oauth_config_information.
C3_NoPartialState ==
    [][pc = "config" =>
        IF MissingRequired(request')
        THEN /\ state' = state
             /\ DOMAIN state' = {}
             /\ pc' = "config"
             /\ trace' = trace
             /\ response' = "form"
        ELSE /\ pc' = "identity"
             /\ response' = "next_step"
             /\ DOMAIN state' = {"installation_data", "oauth_config_information"}
             /\ trace' = trace \o <<"bind:installation_data",
                                    "bind:oauth_config_information", "next_step">>
      ]_vars

C3_Witness ==
    /\ response = "form"
    /\ "name" \in DOMAIN request
    /\ request["name"] = <<>>
    /\ DOMAIN state = {}

\* C4: message_from_error returns a message for every failure and never
\* raises: the fixed texts for ApiError 404 and 401, the text embedding the
\* status code and the upstream message (or 'unknown error') for any other
\* ApiError, the internal-error text for anything else.
C4_Total ==
    result # <<>> =>
        LET r == result[1]
        IN  /\ r.kind = "return"
            /\ exc.type # "ApiError" => r.fmt = ERR_INTERNAL
            /\ (exc.type = "ApiError" /\ exc.code = 404) => r.fmt = API_ERRORS[404]
            /\ (exc.type = "ApiError" /\ exc.code = 401) => r.fmt = ERR_UNAUTHORIZED
            /\ (exc.type = "ApiError" /\ exc.code \notin {401, 404}) =>
                   /\ r.args[1] = ToString(exc.code)
                   /\ r.args[2] = IF exc.json.t = "dict" /\ exc.json.message # <<>>
                                  THEN exc.json.message[1]
                                  ELSE "unknown error"

\* C5: a failed group lookup raises an ApiError carrying the status code, so
\* that message_from_error maps it by status code and not to the
\* internal-error text.
C5_GroupLookupRaisesApiError ==
    (pc = "failed" /\ Last(trace) = "get_group_info") =>
        /\ raised.type = "ApiError"
        /\ raised.code \in ErrorStatuses
        /\ message_from_error(raised) # Return(ERR_INTERNAL, <<>>)

\* the order of C6 as stated: group lookup before user lookup
StatedOrder ==
    <<"bind:installation_data", "bind:oauth_config_information", "next_step",
      "identity_view", "token", "get_group_info", "group_ok", "get_user_info",
      "user_ok", "integration">>

\* the order with the user lookup before the group lookup
UserFirstOrder ==
    <<"bind:installation_data", "bind:oauth_config_information", "next_step",
      "identity_view", "token", "get_user_info", "user_ok", "get_group_info",
      "group_ok", "integration">>

\* C6 (as stated): every attempt runs Start, FormSubmitted, OAuthConfigured,
\* Authorized, GroupResolved, UserResolved, Assembled in this order, the user
\* lookup being issued only after the group lookup has succeeded.
C6_StatedOrder == IsPrefix(trace, StatedOrder)

\* C6 (amended): every attempt runs Start, FormSubmitted, OAuthConfigured,
\* Authorized, UserResolved, GroupResolved, Assembled in this order: the
\* identity view is built only after oauth_config_information is bound, the
\* user lookup is issued only after a token was obtained, the group lookup
\* only after the user lookup has succeeded, and the Integration is assembled
\* only after both lookups have succeeded.
C6_UserFirstOrder ==
    /\ IsPrefix(trace, UserFirstOrder)
    /\ "identity_view" \in {trace[i] : i \in 1..Len(trace)}
           => "oauth_config_information" \in DOMAIN state
    /\ integration # <<>> => (user # NoUser /\ group # NoGroup)

C6_Witness == pc = "assembled" /\ trace = UserFirstOrder

\* C7: each lookup is issued at most once per attempt, a failed lookup is
\* followed by no further call and no Integration, and a failed attempt
\* stays failed.
C7_NoRetry ==
    /\ [](/\ Count(trace, "get_user_info") <= 1
          /\ Count(trace, "get_group_info") <= 1
          /\ (Count(trace, "get_user_info") = 1 /\ Count(trace, "user_ok") = 0)
                 => (Last(trace) = "get_user_info" /\ pc = "failed")
          /\ (Count(trace, "get_group_info") = 1 /\ Count(trace, "group_ok") = 0)
                 => (Last(trace) = "get_group_info" /\ pc = "failed")
          /\ pc = "failed" => integration = <<>>)
    /\ [][pc = "failed" => pc' = "failed"]_vars

C7_Witness ==
    /\ pc = "failed"
    /\ Last(trace) = "get_user_info"
    /\ raised.code = 404

\* C8: the external id is exactly "{base_url}:{group_id}", and no other
\* (base_url, group_id) pair that can be installed has the same external id.
C8_ExternalId ==
    integration # <<>> =>
        LET base_url == state["installation_data"].url
        IN  /\ integration[1].external_id = base_url \o <<":">> \o IntToStr(group.id)
            /\ \A b \in BoundUrls, g \in GroupIds :
                   external_id_of(b, g) = integration[1].external_id
                       => (b = base_url /\ g = group.id)

C8_Witness ==
    /\ integration # <<>>
    /\ state["installation_data"].url = <<"g", "l", ":", "8">>
    /\ group.id = 12

\* C9: the oauth data of the Integration holds access_token, holds
\* refresh_token and token_type exactly when the token payload has them, with
\* the payload's values, and holds nothing else.
C9_OAuthData ==
    integration # <<>> =>
        LET payload == state["identity"].data
            data == integration[1].user_identity.data
        IN  /\ DOMAIN data = {"access_token"}
                   \cup ({"refresh_token", "token_type"} \cap DOMAIN payload)
            /\ \A k \in DOMAIN data : data[k] = payload[k]

C9_Witness ==
    /\ integration # <<>>
    /\ DOMAIN state["identity"].data = {"access_token", "token_type", "scope"}
    /\ DOMAIN integration[1].user_identity.data = {"access_token", "token_type"}

\* C10: reinstall stores the group id of the external id under
\* metadata['installation_id'], leaves the other metadata keys and the
\* external id as they were.
C10_Reinstall ==
    pc = "reinstalled" =>
        LET before == assemble(state, user, group)
            model == integration[1]
        IN  /\ model.metadata["installation_id"] = IntToStr(group.id)
            /\ DOMAIN model.metadata = DOMAIN before.metadata \cup {"installation_id"}
            /\ \A k \in DOMAIN before.metadata : model.metadata[k] = before.metadata[k]
            /\ model.external_id = before.external_id

====
